---------------------------- MODULE Spec2Model ----------------------------
(***************************************************************************)
(* A model of lexico.js (src/src/index.ts): a scannerless parser-combinator *)
(* engine.  A specification (string, RegExp, array, object, parser          *)
(* function) is resolved by parser() to a matcher, which is run against a   *)
(* mutable cursor `state` = {text, position, cut}.  A parse failure is      *)
(* `throw null`; anything else thrown is a programming error.               *)
(*                                                                         *)
(* The text is a sequence of one-character strings; position p is the      *)
(* 0-based offset of the source, so the next character is text[p + 1].     *)
(***************************************************************************)
EXTENDS Integers, Sequences, FiniteSets, TLC

VARIABLES
    state,      \* the cursor object: [text, position, cut]
    inner,      \* the closure variable of the unary() cell: a matcher or Unbound
    called,     \* the call last made by the client (ghost)
    entry,      \* the cursor as it was when that call was made (ghost)
    ret,        \* how that call ended: [out, val] (ghost)
    log         \* the matcher entries and exits of that call (ghost)

vars == <<state, inner, called, entry, ret, log>>

---------------------------------------------------------------------------
(* Bounds of the model *)

MaxLen == 3         \* longest text
MaxFuel == 5        \* nested forward-reference invocations before the call stack is exhausted
MaxLoop == 6        \* iterations of repeat's do-while the model follows
MaxDepth == 2       \* nesting of the arrays and objects of a JSON document

Alphabet == {"0", "1", "(", ")"}
Digit == {"0", "1"}
Letter == {"a", "b", "e", "f", "l", "n", "r", "s", "t", "u"}
Alnum == {"0", "1"} \cup Letter

Texts == UNION {[1..n -> Alphabet] : n \in 0..MaxLen}

---------------------------------------------------------------------------
(* JavaScript values *)

Undefined == [t |-> "undefined"]
Null == [t |-> "null"]
True == [t |-> "boolean", v |-> TRUE]
False == [t |-> "boolean", v |-> FALSE]
NaN == [t |-> "NaN"]
Num(n) == [t |-> "number", v |-> n]
StrVal(s) == [t |-> "string", v |-> s]
ArrVal(l) == [t |-> "array", v |-> l]
ObjVal(kv) == [t |-> "object", v |-> kv]
ErrorVal(msg) == [t |-> "Error", v |-> msg]

\* ToBoolean: what `x || y` and `if (x)` test
Truthy(x) ==
    CASE x.t = "undefined" -> FALSE
      [] x.t = "null" -> FALSE
      [] x.t = "NaN" -> FALSE
      [] x.t = "boolean" -> x.v
      [] x.t = "number" -> x.v # 0
      [] x.t = "string" -> Len(x.v) > 0
      [] OTHER -> TRUE

\* String.prototype.substring(start, end): the arguments are swapped when start > end
Substring(txt, a, b) ==
    LET lo == IF a <= b THEN a ELSE b
        hi == IF a <= b THEN b ELSE a
    IN  SubSeq(txt, lo + 1, hi)

DigitValue(ch) == IF ch = "1" THEN 1 ELSE 0

RECURSIVE Decimal(_)
Decimal(s) == IF Len(s) = 0 THEN 0
              ELSE 10 * Decimal(SubSeq(s, 1, Len(s) - 1)) + DigitValue(s[Len(s)])

\* Number(x) on the values a capture can hand it: "" is 0, a digit string its
\* value, any other string of the alphabet NaN
NumberOf(x) ==
    CASE x.t = "string" -> IF \A i \in 1..Len(x.v) : x.v[i] \in Digit
                           THEN Num(Decimal(x.v)) ELSE NaN
      [] x.t = "number" -> x
      [] x.t = "null" -> Num(0)
      [] x.t = "boolean" -> Num(IF x.v THEN 1 ELSE 0)
      [] OTHER -> NaN

BooleanOf(x) == IF Truthy(x) THEN True ELSE False

\* Number.prototype.toString of a non-negative integer
DigitChars == <<"0", "1", "2", "3", "4", "5", "6", "7", "8", "9">>

RECURSIVE NumberToString(_)
NumberToString(n) ==
    IF n < 10 THEN <<DigitChars[n + 1]>>
    ELSE NumberToString(n \div 10) \o <<DigitChars[(n % 10) + 1]>>

\* The characters with a short escape.  The text is a sequence of
\* one-character strings; backspace, which has no notation here, is "BS".
escapeCodes ==
    ("\\" :> "\\") @@ ("b" :> "BS") @@ ("f" :> "\f") @@ ("n" :> "\n")
    @@ ("r" :> "\r") @@ ("t" :> "\t") @@ ("\"" :> "\"")

\* JSON.stringify: a character inside a string
QuoteChar(ch) ==
    IF \E e \in DOMAIN escapeCodes : escapeCodes[e] = ch
    THEN <<"\\", CHOOSE e \in DOMAIN escapeCodes : escapeCodes[e] = ch>>
    ELSE <<ch>>

RECURSIVE QuoteChars(_)
QuoteChars(s) == IF Len(s) = 0 THEN <<>> ELSE QuoteChar(Head(s)) \o QuoteChars(Tail(s))

QuoteString(s) == <<"\"">> \o QuoteChars(s) \o <<"\"">>

RECURSIVE Stringify(_), StringifyItems(_), StringifyProps(_)

\* JSON.stringify(x).  Where it gives no text (undefined) the result is the
\* one-element sequence <<"undefined">>, which is no text.
Stringify(x) ==
    CASE x.t = "null" -> <<"n", "u", "l", "l">>
      [] x.t = "NaN" -> <<"n", "u", "l", "l">>
      [] x.t = "boolean" -> IF x.v THEN <<"t", "r", "u", "e">> ELSE <<"f", "a", "l", "s", "e">>
      [] x.t = "number" -> NumberToString(x.v)
      [] x.t = "string" -> QuoteString(x.v)
      [] x.t = "array" -> <<"[">> \o StringifyItems(x.v) \o <<"]">>
      [] x.t = "object" ->
            <<"{">> \o StringifyProps(SelectSeq(x.v, LAMBDA e : e.val.t # "undefined"))
            \o <<"}">>
      [] OTHER -> <<"undefined">>

\* the elements of an array: undefined is written null
StringifyItems(l) ==
    IF Len(l) = 0 THEN <<>>
    ELSE (IF Head(l).t = "undefined" THEN Stringify(Null) ELSE Stringify(Head(l)))
         \o (IF Len(l) > 1 THEN <<",">> \o StringifyItems(Tail(l)) ELSE <<>>)

StringifyProps(kv) ==
    IF Len(kv) = 0 THEN <<>>
    ELSE QuoteString(Head(kv).key) \o <<":">> \o Stringify(Head(kv).val)
         \o (IF Len(kv) > 1 THEN <<",">> \o StringifyProps(Tail(kv)) ELSE <<>>)

---------------------------------------------------------------------------
(* Regular expressions.  A pattern is [re, flags]; re is a syntax tree:      *)
(*   chr(S)  one character of S        cat(list)  concatenation             *)
(*   star(a) greedy a*                 opt(a)     greedy a?                 *)
(*   bol     ^ (no multiline flag: start of input only)                     *)
(*   syntax  a source character with no literal reading                     *)
(*   alt(list)  alternatives, tried from left to right                      *)

ReChr(S) == [k |-> "chr", set |-> S]
ReCat(l) == [k |-> "cat", list |-> l]
ReStar(a) == [k |-> "star", a |-> a]
ReOpt(a) == [k |-> "opt", a |-> a]
RePlus(a) == ReCat(<<a, ReStar(a)>>)
ReBol == [k |-> "bol"]
ReAlt(l) == [k |-> "alt", list |-> l]
ReSyntax == [k |-> "syntax"]

RegExp(re, flags) == [re |-> re, flags |-> flags]

RECURSIVE ReEnds(_, _, _), ReCatEnds(_, _, _, _), ReEach(_, _, _, _), ReStarEach(_, _, _, _)
RECURSIVE ReAltEnds(_, _, _, _)

\* The end offsets of the matches of re that start at offset i, in the order
\* the backtracking matcher tries them; the first is the match.
ReEnds(re, txt, i) ==
    CASE re.k = "chr" -> IF i < Len(txt) /\ txt[i + 1] \in re.set THEN <<i + 1>> ELSE <<>>
      [] re.k = "bol" -> IF i = 0 THEN <<i>> ELSE <<>>
      [] re.k = "cat" -> ReCatEnds(re.list, 1, txt, i)
      [] re.k = "opt" -> ReEnds(re.a, txt, i) \o <<i>>
      [] re.k = "star" -> ReStarEach(re.a, txt, ReEnds(re.a, txt, i), i) \o <<i>>
      [] re.k = "alt" -> ReAltEnds(re.list, 1, txt, i)
      [] OTHER -> <<>>

ReAltEnds(list, k, txt, i) ==
    IF k > Len(list) THEN <<>>
    ELSE ReEnds(list[k], txt, i) \o ReAltEnds(list, k + 1, txt, i)

ReCatEnds(list, k, txt, i) ==
    IF k > Len(list) THEN <<i>>
    ELSE ReEach(list, k, txt, ReEnds(list[k], txt, i))

ReEach(list, k, txt, ends) ==
    IF Len(ends) = 0 THEN <<>>
    ELSE ReCatEnds(list, k + 1, txt, Head(ends)) \o ReEach(list, k, txt, Tail(ends))

\* an iteration of a* that matches the empty string is rejected
ReStarEach(a, txt, ends, i) ==
    IF Len(ends) = 0 THEN <<>>
    ELSE (IF Head(ends) > i
          THEN ReStarEach(a, txt, ReEnds(a, txt, Head(ends)), Head(ends)) \o <<Head(ends)>>
          ELSE <<>>)
         \o ReStarEach(a, txt, Tail(ends), i)

RECURSIVE RegExpExec(_, _, _)
\* RegExp.prototype.test (RegExpBuiltinExec): [matched, lastIndex].  Without
\* the g or y flag the search starts at 0 and lastIndex is left alone; with y
\* the match must start at lastIndex.
RegExpExec(pattern, txt, lastIndex) ==
    LET sticky == "y" \in pattern.flags
        ends == ReEnds(pattern.re, txt, lastIndex)
    IN  IF lastIndex > Len(txt)
        THEN [matched |-> FALSE, lastIndex |-> 0]
        ELSE IF Len(ends) > 0
        THEN [matched |-> TRUE, lastIndex |-> Head(ends)]
        ELSE IF sticky
        THEN [matched |-> FALSE, lastIndex |-> 0]
        ELSE RegExpExec(pattern, txt, lastIndex + 1)

RegExpTest(pattern, txt, lastIndex) ==
    IF "y" \in pattern.flags \/ "g" \in pattern.flags
    THEN RegExpExec(pattern, txt, lastIndex)
    ELSE [matched |-> RegExpExec(pattern, txt, 0).matched, lastIndex |-> lastIndex]

---------------------------------------------------------------------------
(* Specifications and matchers.  A node is a record tagged by k:            *)
(*   string, regexp, array, object, undefined      the raw specifications   *)
(*   regex, sequence, structure, nothing, cut, eof, ignore, convert,        *)
(*   capture, not, repeat, options, unary          the matchers             *)

Str(s) == [k |-> "string", s |-> s]
Pat(pattern) == [k |-> "regexp", pattern |-> pattern]
Arr(list) == [k |-> "array", list |-> list]
Obj(fields) == [k |-> "object", fields |-> fields]
Field(key, spec) == [key |-> key, spec |-> spec]
Absent == [k |-> "undefined"]

Nothing == [k |-> "nothing"]
Cut == [k |-> "cut"]
Eof == [k |-> "eof"]

\* an escape that leaves the string as it is
rEscapeNone(match) ==
    [i \in 1..Len(match) |-> [c |-> match[i], esc |-> FALSE]]

\* rEscape: every non-alphanumeric character of the string gets a backslash.
\* The source text is a sequence of [c, esc] tokens.
rEscape(match) ==
    [i \in 1..Len(match) |-> [c |-> match[i], esc |-> match[i] \notin Alnum]]

\* RegExp(source): an escaped non-alphanumeric and a bare alphanumeric stand
\* for themselves; a bare non-alphanumeric of the alphabet is a group
\* delimiter, which has no reading as a character.
SourceAtom(tok) ==
    IF tok.esc \/ tok.c \in Alnum THEN ReChr({tok.c}) ELSE ReSyntax

RegExpOfSource(source, flags) ==
    RegExp(ReCat([i \in 1..Len(source) |-> SourceAtom(source[i])]), flags)

\* regex(pattern), lines 193-195: a pattern without the sticky flag is rebuilt
\* from its source with the flag "y" alone
Sticky(pattern) ==
    IF "y" \in pattern.flags THEN pattern ELSE RegExp(pattern.re, {"y"})

Regex(pattern) == [k |-> "regex", pattern |-> Sticky(pattern)]

Punctuation(match) == Regex(RegExpOfSource(rEscape(match), {"y"}))

\* the character class [source]: each token of the source, escaped or not,
\* stands for its character
CharClass(source) == ReChr({source[i].c : i \in 1..Len(source)})

\* char(chars), line 94
Char(chars) == Regex(RegExp(CharClass(rEscape(chars)), {"y"}))

\* the code unit of a character of the alphabet
CharCode(ch) ==
    CASE ch = "(" -> 40
      [] ch = ")" -> 41
      [] ch = "0" -> 48
      [] ch = "1" -> 49

\* the class [a-b]
CharRange(a, b) ==
    ReChr({ch \in Alphabet : CharCode(a) <= CharCode(ch) /\ CharCode(ch) <= CharCode(b)})

\* range(a, b), line 101: the source is ^[a-b], with the flag y
Range(a, b) == Regex(RegExp(ReCat(<<ReBol, CharRange(a, b)>>), {"y"}))

Ignore(spec) == [k |-> "ignore", inner |-> spec]
Convert(spec, fn) == [k |-> "convert", inner |-> spec, fn |-> fn]
Capture(spec) == [k |-> "capture", inner |-> spec]
Not(spec) == [k |-> "not", inner |-> spec]
Repeat(spec, separator) == [k |-> "repeat", inner |-> spec, separator |-> separator]
Unary == [k |-> "unary"]

\* the converter functions of the grammars
FnNumber == [f |-> "Number"]
FnBoolean == [f |-> "Boolean"]
FnConst(v) == [f |-> "const", v |-> v]
FnThrows == [f |-> "throws"]
FnUnescape == [f |-> "unescape"]
FnMinus == [f |-> "minus"]
FnPairs == [f |-> "pairs"]

Literal(match) ==
    Convert(Regex(RegExpOfSource(rEscape(match), {"y"})), FnConst(StrVal(match)))

\* options(...args), lines 154-162: a string option is a literal, a RegExp
\* option is captured, anything else goes through parser()
OptionOf(opt) ==
    IF opt.k = "string" THEN Literal(opt.s)
    ELSE IF opt.k = "regexp" THEN Capture(opt)
    ELSE opt

Options(args) == [k |-> "options", opts |-> [i \in 1..Len(args) |-> OptionOf(args[i])]]

\* parser(spec): the dispatch on the shape of the specification
parser(spec) ==
    CASE spec.k = "string" -> Punctuation(spec.s)
      [] spec.k = "undefined" -> Nothing
      [] spec.k = "array" -> [k |-> "sequence", list |-> spec.list]
      [] spec.k = "regexp" -> Regex(spec.pattern)
      [] spec.k = "object" -> [k |-> "structure", obj |-> spec.fields]
      [] OTHER -> spec

---------------------------------------------------------------------------
(* Outcomes.  A run takes a cursor c = [text, position, cut, log] and gives  *)
(* a result: the cursor's fields after the run, out and val.               *)
(*   out = "ok"     returned val                                           *)
(*   out = "fail"   threw null (parse failure)                             *)
(*   out = "error"  threw val, an Error                                    *)
(*   out = "hang"   did not return                                         *)

Ok(c, v) == [text |-> c.text, position |-> c.position, cut |-> c.cut, log |-> c.log,
             out |-> "ok", val |-> v]
Fail(c) == [text |-> c.text, position |-> c.position, cut |-> c.cut, log |-> c.log,
            out |-> "fail", val |-> Null]
Err(c, msg) == [text |-> c.text, position |-> c.position, cut |-> c.cut, log |-> c.log,
                out |-> "error", val |-> ErrorVal(msg)]
Hang(c) == [text |-> c.text, position |-> c.position, cut |-> c.cut, log |-> c.log,
            out |-> "hang", val |-> Undefined]
Cur(r) == [text |-> r.text, position |-> r.position, cut |-> r.cut, log |-> r.log]

Event(path, kind, ev, c, v) ==
    [path |-> path, k |-> kind, ev |-> ev, position |-> c.position, cut |-> c.cut,
     val |-> v]

---------------------------------------------------------------------------
(* The matchers *)

RECURSIVE Call(_, _, _, _)
RECURSIVE sequenceLoop(_, _, _, _, _, _), structureLoop(_, _, _, _, _, _, _)
RECURSIVE repeatLoop(_, _, _, _, _, _), optionsLoop(_, _, _, _, _, _, _)

nothing(c) == Ok(c, Undefined)

cut(c) == Ok([c EXCEPT !.cut = True], Undefined)

eof(c) == IF c.position < Len(c.text) THEN Fail(c) ELSE Ok(c, Undefined)

\* the matcher regex(pattern) returns, lines 196-204
regex(pattern, c) ==
    LET t == RegExpTest(pattern, c.text, c.position)
    IN  IF t.matched
        THEN Ok([c EXCEPT !.position = t.lastIndex], Undefined)
        ELSE Fail(c)

ignore(m, c, path, fuel) ==
    LET r == Call(m.inner, c, path \o <<1>>, fuel)
    IN  IF r.out = "ok" THEN [r EXCEPT !.val = Undefined] ELSE r

\* x.replace(/\\[bfnrt"\\]/, (c) => escapeCodes[c[1]]): the pattern has no g
\* flag, so the leftmost escape alone is replaced
Unescape(s) ==
    LET at == {i \in 1..(Len(s) - 1) : s[i] = "\\" /\ s[i + 1] \in DOMAIN escapeCodes}
    IN  IF at = {} THEN s
        ELSE LET i == CHOOSE j \in at : \A n \in at : j <= n
             IN  SubSeq(s, 1, i - 1) \o <<escapeCodes[s[i + 1]]>> \o SubSeq(s, i + 2, Len(s))

\* pair.key, pair.value: a property of the record a structure yields
GetProp(o, name) == (CHOOSE e \in {o.v[i] : i \in 1..Len(o.v)} : e.key = name).val

\* retval[key] = v.  The keys of the documents of the model are not
\* integer-like, so the properties stay in the order they were first set.
SetProp(kv, key, v) ==
    IF \E n \in 1..Len(kv) : kv[n].key = key
    THEN [n \in 1..Len(kv) |-> IF kv[n].key = key THEN [key |-> key, val |-> v] ELSE kv[n]]
    ELSE Append(kv, [key |-> key, val |-> v])

RECURSIVE FromPairs(_, _, _)
\* for (const pair of pairs) retval[pair.key] = pair.value
FromPairs(pairs, n, retval) ==
    IF n > Len(pairs) THEN retval
    ELSE FromPairs(pairs, n + 1,
                   SetProp(retval, GetProp(pairs[n], "key").v, GetProp(pairs[n], "value")))

\* converter(x): [threw, v]
Apply(fn, x) ==
    CASE fn.f = "Number" -> [threw |-> FALSE, v |-> NumberOf(x)]
      [] fn.f = "Boolean" -> [threw |-> FALSE, v |-> BooleanOf(x)]
      [] fn.f = "const" -> [threw |-> FALSE, v |-> fn.v]
      [] fn.f = "minus" ->
            [threw |-> FALSE,
             v |-> IF GetProp(x, "lhs").t = "number" /\ GetProp(x, "rhs").t = "number"
                   THEN Num(GetProp(x, "lhs").v - GetProp(x, "rhs").v)
                   ELSE NaN]
      [] fn.f = "unescape" -> IF x.t = "string"
                              THEN [threw |-> FALSE, v |-> StrVal(Unescape(x.v))]
                              ELSE [threw |-> TRUE, v |-> "TypeError"]
      [] fn.f = "pairs" -> IF x.t = "array"
                           THEN [threw |-> FALSE, v |-> ObjVal(FromPairs(x.v, 1, <<>>))]
                           ELSE [threw |-> TRUE, v |-> "TypeError"]
      [] OTHER -> [threw |-> TRUE, v |-> "converter threw"]

convert(m, c, path, fuel) ==
    LET r == Call(m.inner, c, path \o <<1>>, fuel)
        a == Apply(m.fn, r.val)
    IN  IF r.out # "ok" THEN r
        ELSE IF a.threw THEN Err(Cur(r), a.v)
        ELSE [r EXCEPT !.val = a.v]

\* a capture that hands on what its inner matcher yields
captureYieldsInner(m, c, path, fuel) == Call(m.inner, c, path \o <<1>>, fuel)

capture(m, c, path, fuel) ==
    LET start == c.position
        r == Call(m.inner, c, path \o <<1>>, fuel)
    IN  IF r.out = "ok"
        THEN [r EXCEPT !.val = StrVal(Substring(c.text, start, r.position))]
        ELSE r

\* a catch clause that goes back to the start of the text
NotCatchAtZero(c, start) == Ok([c EXCEPT !.position = 0], Undefined)

\* not, lines 285-288: the catch clause names no exception, so it takes a
\* thrown Error as it takes a thrown null
NotCatch(c, start) == Ok([c EXCEPT !.position = start], Undefined)

\* not, line 289: inner returned
NotThrow(c, start) == Fail(c)

not(m, c, path, fuel) ==
    LET start == c.position
        r == Call(m.inner, c, path \o <<1>>, fuel)
    IN  IF r.out = "hang" THEN r
        ELSE IF r.out = "ok" THEN NotThrow(Cur(r), start)
        ELSE NotCatch(Cur(r), start)

\* unary, lines 258-262: the cell called with a cursor.  The call stack holds
\* MaxFuel nested invocations; one more is a RangeError.
unary(c, path, fuel) ==
    IF inner = Null THEN Err(c, "Unary not set")
    ELSE IF fuel = 0 THEN Err(c, "RangeError")
    ELSE Call(inner, c, path \o <<1>>, fuel - 1)

\* sequence, line 217: retval = p(state) || retval
SequenceKeep(v, retval) == IF Truthy(v) THEN v ELSE retval

sequenceLoop(list, i, c, retval, path, fuel) ==
    IF i > Len(list) THEN Ok(c, retval)
    ELSE LET r == Call(list[i], c, path \o <<i>>, fuel)
         IN  IF r.out # "ok" THEN r
             ELSE sequenceLoop(list, i + 1, Cur(r), SequenceKeep(r.val, retval), path, fuel)

sequence(m, c, path, fuel) == sequenceLoop(m.list, 1, c, Null, path, fuel)

\* for (const key in obj): integer-like keys first, in ascending order, then
\* the other keys in the order they were written
IndexKeys == {"0", "1"}

ForInOrder(obj) ==
    LET idx == {i \in 1..Len(obj) : obj[i].key \in IndexKeys}
        zero == SelectSeq([i \in 1..Len(obj) |-> i], LAMBDA i : obj[i].key = "0")
        one == SelectSeq([i \in 1..Len(obj) |-> i], LAMBDA i : obj[i].key = "1")
        rest == SelectSeq([i \in 1..Len(obj) |-> i], LAMBDA i : i \notin idx)
    IN  zero \o one \o rest

\* structure, line 229: retval[key] = parser(obj[key])(state)
StructureSet(retval, key, v) == Append(retval, [key |-> key, val |-> v])

structureLoop(obj, order, n, c, retval, path, fuel) ==
    IF n > Len(order) THEN Ok(c, ObjVal(retval))
    ELSE LET i == order[n]
             r == Call(obj[i].spec, c, path \o <<i>>, fuel)
         IN  IF r.out # "ok" THEN r
             ELSE structureLoop(obj, order, n + 1, Cur(r),
                                StructureSet(retval, obj[i].key, r.val), path, fuel)

structure(m, c, path, fuel) ==
    structureLoop(m.obj, ForInOrder(m.obj), 1, c, <<>>, path, fuel)

\* a catch clause that does not put the position back
RepeatCatchKeep(c, begin) == c

\* repeat, line 132: the catch clause of an iteration
RepeatCatch(c, begin) == [c EXCEPT !.position = begin]

\* a loop condition that takes no progress for progress
RepeatWhileOrEqual(pos, begin) == pos >= begin

\* repeat, line 134: while (state.position > begin)
RepeatWhile(pos, begin) == pos > begin

\* repeat, lines 116-118 and 125-127: if (item !== undefined) list.push(item)
RepeatPush(list, item) == IF item # Undefined THEN Append(list, item) ELSE list

\* an iteration measured from the start of the text
RepeatBeginAtZero(c) == 0

\* repeat, line 121: begin = state.position
RepeatBegin(c) == c.position

repeatLoop(m, c, list, n, path, fuel) ==
    IF n > MaxLoop THEN Hang(c)
    ELSE LET begin == RepeatBegin(c)
             s == Call(m.separator, c, path \o <<2>>, fuel)
             r == IF s.out = "ok" THEN Call(m.inner, Cur(s), path \o <<1>>, fuel) ELSE s
             after == IF r.out = "ok" THEN Cur(r) ELSE RepeatCatch(Cur(r), begin)
             list2 == IF r.out = "ok" THEN RepeatPush(list, r.val) ELSE list
         IN  IF r.out \in {"error", "hang"} THEN r
             ELSE IF RepeatWhile(after.position, begin)
             THEN repeatLoop(m, after, list2, n + 1, path, fuel)
             ELSE Ok(after, ArrVal(list2))

repeat(m, c, path, fuel) ==
    LET first == Call(m.inner, c, path \o <<1>>, fuel)
    IN  IF first.out # "ok" THEN first
        ELSE repeatLoop(m, Cur(first), RepeatPush(<<>>, first.val), 1, path, fuel)

\* an alternation that does not go back to where it began
OptionsNoRewind(c, begin) == c

\* options, line 180: state.position = begin
OptionsRewind(c, begin) == [c EXCEPT !.position = begin]

\* an alternation that leaves the commit flag as its options left it
OptionsKeepCut(c, wasCut) == c

\* options, lines 170 and 182: state.cut = wasCut
OptionsRestore(c, wasCut) == [c EXCEPT !.cut = wasCut]

\* options, line 177: if (state.cut) break
OptionsBreak(c) == Truthy(c.cut)

optionsLoop(opts, i, c, begin, wasCut, path, fuel) ==
    IF i > Len(opts) THEN Fail(OptionsRestore(c, wasCut))
    ELSE LET r == Call(opts[i], c, path \o <<i>>, fuel)
         IN  IF r.out = "ok" THEN Ok(OptionsRestore(Cur(r), wasCut), r.val)
             ELSE IF r.out # "fail" THEN r
             ELSE IF OptionsBreak(Cur(r)) THEN Fail(OptionsRestore(Cur(r), wasCut))
             ELSE optionsLoop(opts, i + 1, OptionsRewind(Cur(r), begin),
                              begin, wasCut, path, fuel)

\* an alternation that runs under the commit flag it inherits
OptionsInherit(c) == c

\* options, line 166: state.cut = false
OptionsOpen(c) == [c EXCEPT !.cut = False]

options(m, c, path, fuel) ==
    optionsLoop(m.opts, 1, OptionsOpen(c), c.position, c.cut, path, fuel)

\* the matcher parser(spec) gives, run on cursor c
Run(m, c, path, fuel) ==
    CASE m.k = "regex" -> regex(m.pattern, c)
      [] m.k = "nothing" -> nothing(c)
      [] m.k = "cut" -> cut(c)
      [] m.k = "eof" -> eof(c)
      [] m.k = "ignore" -> ignore(m, c, path, fuel)
      [] m.k = "convert" -> convert(m, c, path, fuel)
      [] m.k = "capture" -> capture(m, c, path, fuel)
      [] m.k = "not" -> not(m, c, path, fuel)
      [] m.k = "unary" -> unary(c, path, fuel)
      [] m.k = "sequence" -> sequence(m, c, path, fuel)
      [] m.k = "structure" -> structure(m, c, path, fuel)
      [] m.k = "repeat" -> repeat(m, c, path, fuel)
      [] m.k = "options" -> options(m, c, path, fuel)

\* parser(spec)(state), with the entry and the exit written to the log
Call(spec, c, path, fuel) ==
    LET m == parser(spec)
        r == Run(m, [c EXCEPT !.log = Append(@, Event(path, m.k, "call", c, Undefined))], path, fuel)
    IN  [r EXCEPT !.log = Append(@, Event(path, m.k, r.out, r, r.val))]

---------------------------------------------------------------------------
(* The grammars the client builds *)

Space == {" "}

\* /\d+/
digits == RegExp(RePlus(ReChr(Digit)), {})

\* /[+-]?([0-9]*[.])?[0-9]+/
floatPattern ==
    RegExp(ReCat(<<ReOpt(ReChr({"+", "-"})),
                   ReOpt(ReCat(<<ReStar(ReChr(Digit)), ReChr({"."})>>)),
                   RePlus(ReChr(Digit))>>), {})

whitespace == Ignore(Pat(RegExp(ReStar(ReChr(Space)), {})))
integer == Convert(Capture(Pat(digits)), FnNumber)
float == Convert(Capture(Pat(floatPattern)), FnNumber)

\* a matcher that raises a programming error: a converter that throws
Throws == Convert(Nothing, FnThrows)

\* options([X, cut, Y], Z)
CutX == {Str(<<"1">>), Nothing, Options(<<Str(<<"(">>), Arr(<<Cut, Str(<<"1">>)>>)>>)}
CutY == {float, Str(<<"(">>), Eof, Options(<<Str(<<"(">>), Str(<<"0">>)>>),
         Arr(<<Not(Options(<<Throws>>)), Str(<<"(">>)>>)}
CutZ == {Arr(<<Str(<<"1">>), Str(<<"(">>)>>), Nothing}

CutGrammars == {Options(<<Arr(<<X, Cut, Y>>), Z>>) : X \in CutX, Y \in CutY, Z \in CutZ}

\* options(A, B)
AltA == {Arr(<<Str(<<"1">>), Str(<<"(">>)>>),
         Str(<<"0">>),
         Arr(<<Str(<<"1">>), Cut, Str(<<"(">>)>>),
         Arr(<<Cut, Eof>>),
         Not(Nothing)}
AltB == {integer, Str(<<"1">>), Nothing, Arr(<<Str(<<"1">>), Cut>>), Pat(digits),
         Repeat(Str(<<"1">>), Absent), Str(<<"0">>)}

AltGrammars == {Options(<<A, B>>) : A \in AltA, B \in AltB}

\* options(A, Z) with an options inside A
NestA == {Arr(<<Options(<<Arr(<<Cut, Str(<<"1">>)>>), Str(<<"(">>)>>), Str(<<"0">>)>>),
          Arr(<<Options(<<Cut>>), Eof>>),
          Arr(<<Options(<<Arr(<<Str(<<"1">>), Cut, Str(<<"1">>)>>), Nothing>>), Str(<<"(">>)>>),
          Arr(<<Not(Options(<<Arr(<<Cut, Throws>>)>>)), Str(<<"(">>)>>)}
NestZ == {Nothing, Str(<<"1">>)}

NestGrammars == {Options(<<A, Z>>) : A \in NestA, Z \in NestZ}

\* repeat(inner, separator)
RepeatInner == {Str(<<"1">>), integer, Nothing, whitespace,
                Pat(RegExp(ReStar(ReChr(Digit)), {})),
                Arr(<<Str(<<"(">>), Str(<<")">>)>>),
                Options(<<Str(<<"0">>), Str(<<"1">>)>>),
                Options(<<Str(<<"1">>), Arr(<<Str(<<"(">>), Throws>>)>>)}
RepeatSeparator == {Absent, Str(<<"(">>), whitespace, Str(<<"0">>)}

RepeatGrammars == {Repeat(i, s) : i \in RepeatInner, s \in RepeatSeparator}

\* not(inner)
NotInner == {Str(<<"1">>), integer, Nothing, Eof, Arr(<<Str(<<"(">>), Str(<<")">>)>>),
             Not(Str(<<"1">>)), Options(<<Str(<<"0">>), Str(<<"1">>)>>)}

NotGrammars == {Not(i) : i \in NotInner}

\* patterns handed to parser(): without flags, with the g flag, with the y flag
Patterns == {digits,
             RegExp(ReChr({"1"}), {}),
             RegExp(ReChr({"("}), {"g"}),
             RegExp(RePlus(ReChr({")"})), {"y"}),
             RegExp(ReStar(ReChr(Digit)), {})}

PatternGrammars == {Pat(p) : p \in Patterns}

\* arrays handed to parser()
SequenceGrammars ==
    {Arr(<<Str(<<"(">>), integer, Str(<<")">>)>>),
     Arr(<<integer, Capture(Pat(RegExp(ReStar(ReChr({"("})), {})))>>),
     Arr(<<Literal(<<"1">>), Convert(Nothing, FnConst(Null))>>),
     Arr(<<Literal(<<"1">>), Convert(Nothing, FnConst(False))>>),
     Arr(<<whitespace, integer, whitespace>>),
     Arr(<<Nothing, Str(<<"1">>)>>),
     Arr(<<Literal(<<"(">>), Literal(<<"1">>), Str(<<")">>)>>)}

\* objects handed to parser()
Discarded == {"_", "__", "___", "____", "_____"}

StructureGrammars ==
    {Obj(<<Field("lhs", integer), Field("_", Str(<<"(">>)), Field("rhs", integer)>>),
     Obj(<<Field("key", Literal(<<"1">>)), Field("__", Literal(<<"(">>))>>),
     Obj(<<Field("value", integer), Field("0", Literal(<<"(">>))>>),
     Obj(<<Field("_", whitespace), Field("value", Capture(Pat(digits)))>>)}

\* options, repeat and not over an inner matcher that raises a programming
\* error: a converter that throws, or the forward reference while unbound
ErrorInner == {Throws, Unary, Arr(<<Str(<<"1">>), Throws>>), Str(<<"1">>)}

ErrorGrammars ==
    {Options(<<i, Nothing>>) : i \in ErrorInner}
    \cup {Options(<<Str(<<"0">>), i, Nothing>>) : i \in ErrorInner}
    \cup {Repeat(i, Absent) : i \in ErrorInner}
    \cup {Repeat(Str(<<"1">>), i) : i \in ErrorInner}
    \cup {Not(i) : i \in ErrorInner}
    \cup {Arr(<<Not(i), Str(<<"1">>)>>) : i \in ErrorInner}

\* text literals: a string handed to parser(), and literal(match)
Literals == UNION {[1..n -> Alphabet] : n \in 0..2}

LiteralGrammars ==
    {Str(L) : L \in Literals} \cup {Literal(L) : L \in {M \in Literals : Len(M) <= 1}}

\* char(chars) and range(a, b)
CharSets == UNION {[1..n -> Alphabet] : n \in 0..2}
Ranges == {ab \in Alphabet \X Alphabet : CharCode(ab[1]) <= CharCode(ab[2])}

CharGrammars == {Char(chars) : chars \in CharSets} \cup {Range(ab[1], ab[2]) : ab \in Ranges}

\* capture(inner)
CaptureInner == {Pat(digits), integer, Nothing, Eof,
                 Arr(<<Str(<<"(">>), integer>>),
                 Arr(<<Literal(<<"1">>), Literal(<<"(">>)>>),
                 Arr(<<integer, Str(<<")">>)>>),
                 Not(Str(<<"1">>)),
                 Repeat(Str(<<"1">>), Str(<<"0">>)),
                 Options(<<Str(<<"0">>), Arr(<<Str(<<"1">>), Str(<<"(">>)>>)>>)}

CaptureGrammars ==
    {Capture(i) : i \in CaptureInner}
    \cup {Arr(<<Str(<<"(">>), Capture(i)>>) : i \in {integer, Arr(<<Str(<<"(">>), integer>>)}}
    \cup {Options(<<Pat(digits), Pat(RegExp(ReStar(ReChr({"("})), {}))>>)}

\* the JSON grammar of index.spec.ts; jsonValue is the forward reference
JsonChars == Alnum \cup {"[", "]", "{", "}", ",", ":", "\"", "\\", " ", ".", "-", "+"}

jsonNull == Convert(Str(<<"n", "u", "l", "l">>), FnConst(Null))
jsonBool == Convert(Options(<<Str(<<"t", "r", "u", "e">>), Str(<<"f", "a", "l", "s", "e">>)>>),
                    FnBoolean)

\* /(?:[^"\\]|(?:\\[bfnrt"\\]))*/
stringBody ==
    RegExp(ReStar(ReAlt(<<ReChr(JsonChars \ {"\"", "\\"}),
                          ReCat(<<ReChr({"\\"}), ReChr(DOMAIN escapeCodes)>>)>>)), {})

jsonString ==
    Convert(Arr(<<Str(<<"\"">>), Capture(Pat(stringBody)), Str(<<"\"">>)>>), FnUnescape)

\* /\s*,\s*/
comma == Pat(RegExp(ReCat(<<ReStar(ReChr(Space)), ReChr({","}), ReStar(ReChr(Space))>>), {}))

\* [ignore(/\[\s*/), repeat(jsonValue, comma), ignore(/\s*]/)]
jsonArray ==
    Arr(<<Ignore(Pat(RegExp(ReCat(<<ReChr({"["}), ReStar(ReChr(Space))>>), {}))),
          Repeat(Unary, comma),
          Ignore(Pat(RegExp(ReCat(<<ReStar(ReChr(Space)), ReChr({"]"})>>), {})))>>)

jsonProp ==
    Obj(<<Field("key", jsonString),
          Field("_", Ignore(Pat(RegExp(ReCat(<<ReStar(ReChr(Space)), ReChr({":"}),
                                                ReStar(ReChr(Space))>>), {})))),
          Field("value", Unary)>>)

jsonDictionary ==
    Convert(Arr(<<Ignore(Pat(RegExp(ReCat(<<ReChr({"{"}), ReStar(ReChr(Space))>>), {}))),
                  Repeat(jsonProp, comma),
                  Ignore(Pat(RegExp(ReCat(<<ReChr({"}"}), ReStar(ReChr(Space))>>), {})))>>),
            FnPairs)

\* jsonValue(options(...)): what the forward reference is bound to
jsonValue == Options(<<jsonDictionary, jsonArray, jsonString, jsonNull, jsonBool, float>>)

jsonDocument == Arr(<<whitespace, Unary, whitespace>>)

\* the values the documents encode
JsonAtoms == {Null, True, False, Num(0), Num(1), Num(10),
              StrVal(<<>>), StrVal(<<"a">>), StrVal(<<"\"">>), StrVal(<<"\"", "\"">>)}

RECURSIVE JsonValues(_)
JsonValues(d) ==
    IF d = 0 THEN JsonAtoms
    ELSE LET S == JsonValues(d - 1)
         IN  S \cup {ArrVal(<<>>), ObjVal(<<>>)}
               \cup {ArrVal(<<v>>) : v \in S}
               \cup {ArrVal(<<v, w>>) : v \in S, w \in {Null, Num(1)}}
               \cup {ObjVal(<<[key |-> <<"a">>, val |-> v]>>) : v \in S}
               \cup {ObjVal(<<[key |-> <<"a">>, val |-> v], [key |-> <<"b">>, val |-> Num(0)]>>) :
                       v \in S}

\* one grammar or more of every kind of matcher; expr is the forward reference
expr == Options(<<Arr(<<Str(<<"(">>), Unary, Str(<<")">>)>>), integer>>)

MixedGrammars ==
    {Str(<<"(">>), Literal(<<"1">>), Pat(digits), Char(<<"(", "1">>), Range("0", "1"),
     Arr(<<Str(<<"(">>), integer, Str(<<")">>)>>),
     Obj(<<Field("lhs", integer), Field("_", Str(<<"(">>)), Field("rhs", Unary)>>),
     Options(<<Arr(<<Str(<<"1">>), Cut, Str(<<"(">>)>>), integer>>),
     Options(<<Arr(<<Options(<<Arr(<<Str(<<"(">>), Str(<<"0">>)>>), Cut>>), Str(<<"1">>)>>),
               Nothing>>),
     Repeat(Unary, Str(<<"0">>)),
     Repeat(Options(<<Str(<<"1">>), Arr(<<Str(<<"(">>), Str(<<")">>)>>)>>), Absent),
     Capture(Arr(<<Str(<<"(">>), Unary>>)),
     integer, whitespace, Ignore(Unary),
     Not(Str(<<"1">>)), Not(Arr(<<Str(<<"(">>), Throws>>)),
     Arr(<<Not(Arr(<<Str(<<"1">>), Str(<<"(">>)>>)), Pat(digits)>>),
     Eof, Arr(<<Unary, Eof>>),
     Cut, Arr(<<Cut, Options(<<Arr(<<Str(<<"1">>), Str(<<"(">>)>>), Str(<<"1">>)>>)>>),
     Arr(<<Not(Options(<<Arr(<<Cut, Throws>>)>>)), Pat(digits)>>),
     Unary}

\* op("-", (a, b) => a - b) of the expression grammar
opMinus ==
    Convert(Obj(<<Field("lhs", Unary), Field("_", Str(<<"-">>)), Field("rhs", Unary)>>),
            FnMinus)

\* rules that invoke the forward reference they are bound to before anything
\* has been consumed
LeftRecursive ==
    {Options(<<opMinus, Arr(<<Str(<<"(">>), Unary, Str(<<")">>)>>), float>>),
     Options(<<Arr(<<Unary, Str(<<"1">>)>>), Str(<<"1">>)>>),
     Arr(<<whitespace, Unary, Str(<<"1">>)>>),
     Capture(Unary),
     Repeat(Arr(<<Nothing, Unary>>), Str(<<"0">>))}

\* the same, with the invocation under not
LeftRecursiveNot == {Options(<<Arr(<<Not(Unary), Str(<<"1">>)>>), integer>>)}

LeftRecTargets == LeftRecursive \cup LeftRecursiveNot

\* what the client binds the forward reference to
Targets == {Options(<<Arr(<<Str(<<"(">>), Unary, Str(<<")">>)>>), integer>>),
            Literal(<<"1">>)}

---------------------------------------------------------------------------
(* The client: it builds a cursor, binds the forward reference, and calls    *)
(* matchers on the cursor.                                                   *)

Cuts == {Undefined, False, True}

Cursors ==
    {[text |-> t, position |-> p, cut |-> b] : t \in Texts, p \in 0..MaxLen, b \in Cuts}

Init ==
    /\ state \in {s \in Cursors : s.position <= Len(s.text)}
    /\ inner = Null
    /\ called = [op |-> "none", arg |-> Null]
    /\ entry = state
    /\ ret = [out |-> "none", val |-> Undefined]
    /\ log = <<>>

Running == ret.out # "hang"

\* matcher(state)
Invoke(g) ==
    LET r == Call(g, [text |-> state.text, position |-> state.position,
                      cut |-> state.cut, log |-> <<>>], <<>>, MaxFuel)
    IN  /\ Running
        /\ state' = [text |-> r.text, position |-> r.position, cut |-> r.cut]
        /\ called' = [op |-> "parse", arg |-> g]
        /\ entry' = state
        /\ ret' = [out |-> r.out, val |-> r.val]
        /\ log' = r.log
        /\ UNCHANGED inner

\* one parse: the matcher called on a cursor made for it
Parse(g) == called.op = "none" /\ Invoke(g)

\* a cell that takes a new target whenever it is given one
BindAlways == TRUE

\* unary, line 263: `inner == null && typeof arg == "function"`
BindGuard == inner = Null

\* the cell called with a matcher (typeof arg == "function"), lines 263-268
Bind(m) ==
    /\ Running
    /\ IF BindGuard
       THEN /\ inner' = m
            /\ ret' = [out |-> "ok", val |-> Undefined]
       ELSE /\ inner' = inner
            /\ ret' = [out |-> "error", val |-> ErrorVal("Invalid argument")]
    /\ called' = [op |-> "bind", arg |-> m]
    /\ entry' = state
    /\ log' = <<>>
    /\ UNCHANGED state

\* the cell called with a value that is neither an object nor a function,
\* lines 266-268
CallOther ==
    /\ Running
    /\ ret' = [out |-> "error", val |-> ErrorVal("Invalid argument")]
    /\ called' = [op |-> "other", arg |-> Null]
    /\ entry' = state
    /\ log' = <<>>
    /\ UNCHANGED <<state, inner>>

\* parses of options([X, cut, Y], Z)
NextCut == \E g \in CutGrammars : Parse(g)

SpecCut == Init /\ [][NextCut]_vars

\* parses of options(A, B)
NextOptions == \E g \in AltGrammars \cup NestGrammars : Parse(g)

SpecOptions == Init /\ [][NextOptions]_vars

\* parses of repeat(inner, separator)
NextRepeat == \E g \in RepeatGrammars : Parse(g)

SpecRepeat == Init /\ [][NextRepeat]_vars

\* parses of not(inner), of patterns, of arrays and of objects
NextBasic ==
    \E g \in NotGrammars \cup PatternGrammars \cup SequenceGrammars \cup StructureGrammars :
        Parse(g)

SpecBasic == Init /\ [][NextBasic]_vars

\* the forward reference: bound, bound again, called with a cursor, called
\* with something else, in any order
NextUnary ==
    \/ Invoke(Unary)
    \/ \E m \in Targets : Bind(m)
    \/ CallOther

SpecUnary == Init /\ [][NextUnary]_vars

\* parses of options, repeat and not over an inner that raises an Error
NextError == \E g \in ErrorGrammars : Parse(g)

SpecError == Init /\ [][NextError]_vars

\* parses of text literals
NextLiteral == \E g \in LiteralGrammars : Parse(g)

SpecLiteral == Init /\ [][NextLiteral]_vars

\* parses of char(chars) and range(a, b)
NextChar == \E g \in CharGrammars : Parse(g)

SpecChar == Init /\ [][NextChar]_vars

\* parses of capture(inner)
NextCapture == \E g \in CaptureGrammars : Parse(g)

SpecCapture == Init /\ [][NextCapture]_vars

\* the JSON test: a cursor at position 0 of JSON.stringify(value)
InitJson ==
    /\ state \in {[text |-> Stringify(v), position |-> 0, cut |-> b] :
                    v \in JsonValues(MaxDepth), b \in Cuts}
    /\ inner = Null
    /\ called = [op |-> "none", arg |-> Null]
    /\ entry = state
    /\ ret = [out |-> "none", val |-> Undefined]
    /\ log = <<>>

\* jsonValue(options(...)), then jsonDocument({text, position: 0})
NextJson ==
    \/ called.op = "none" /\ Bind(jsonValue)
    \/ called.op = "bind" /\ Invoke(jsonDocument)

SpecJson == InitJson /\ [][NextJson]_vars

\* expr(options(...)), then one parse of a matcher of any kind
NextMixed ==
    \/ called.op = "none" /\ Bind(expr)
    \/ called.op = "bind" /\ \E g \in MixedGrammars : Invoke(g)

SpecMixed == Init /\ [][NextMixed]_vars

\* expr(rule), then expr(state)
NextLeftRec ==
    \/ called.op = "none" /\ \E m \in LeftRecTargets : Bind(m)
    \/ called.op = "bind" /\ Invoke(Unary)

SpecLeftRec == Init /\ [][NextLeftRec]_vars

---------------------------------------------------------------------------
(* What the log of the last call says *)

Attempted(path) == \E i \in 1..Len(log) : log[i].path = path /\ log[i].ev = "call"
Exited(path, ev) == \E i \in 1..Len(log) : log[i].path = path /\ log[i].ev = ev
Parsed == called.op = "parse"

\* the cursor of the last call as it was at entry, to run another matcher on
EntryCursor == [text |-> entry.text, position |-> entry.position, cut |-> entry.cut,
                log |-> <<>>]
Alone(g) == Call(g, EntryCursor, <<>>, MaxFuel)

---------------------------------------------------------------------------
(* C1: in options([X, cut, Y], Z), once X has succeeded and Y has then      *)
(* failed with a parse failure, the alternation fails with a parse failure  *)
(* and Z is not attempted.                                                  *)
C1_CutForecloses ==
    (/\ Parsed
     /\ called.arg \in CutGrammars
     /\ Exited(<<1, 1>>, "ok")
     /\ Exited(<<1, 3>>, "fail"))
    => (ret.out = "fail" /\ ~Attempted(<<2>>))

\* the same on the grammars in which no programming error is raised
C1_CutForeclosesNoError ==
    (\A i \in 1..Len(log) : log[i].ev # "error") => C1_CutForecloses

\* the case of C1: X succeeded, Y failed, and Z alone succeeds at the start
C1_Case ==
    /\ Parsed
    /\ called.arg \in CutGrammars
    /\ Exited(<<1, 1>>, "ok")
    /\ Exited(<<1, 3>>, "fail")
    /\ Alone(called.arg.opts[2]).out = "ok"
    /\ ret.out = "fail"

---------------------------------------------------------------------------
\* the exit event of the first option of the alternation called
FirstOptionFailedUncommitted ==
    \E i \in 1..Len(log) :
        log[i].path = <<1>> /\ log[i].ev = "fail" /\ ~Truthy(log[i].cut)

(* C2 as stated: in options(A, B) run at p, if A fails at p and B succeeds   *)
(* at p, the alternation yields B's value and ends at the position B alone  *)
(* reaches from p.                                                          *)
C2_SecondOptionAsStated ==
    (/\ Parsed
     /\ called.arg \in AltGrammars
     /\ Alone(called.arg.opts[1]).out = "fail"
     /\ Alone(called.arg.opts[2]).out = "ok")
    => (/\ ret = [out |-> "ok", val |-> Alone(called.arg.opts[2]).val]
        /\ state.position = Alone(called.arg.opts[2]).position)

(* C2 amended: in options(A, B) run at p, if A fails at p with the commit   *)
(* flag unset when it fails, and B succeeds at p, the alternation yields    *)
(* B's value and ends at the position B alone reaches from p.               *)
C2_SecondOption ==
    (/\ Parsed
     /\ called.arg \in AltGrammars \cup NestGrammars
     /\ FirstOptionFailedUncommitted
     /\ Alone(called.arg.opts[2]).out = "ok")
    => (/\ ret = [out |-> "ok", val |-> Alone(called.arg.opts[2]).val]
        /\ state.position = Alone(called.arg.opts[2]).position)

\* the case of C2: A advanced before it failed, and B then matched
C2_Case ==
    /\ Parsed
    /\ called.arg \in AltGrammars
    /\ FirstOptionFailedUncommitted
    /\ \E i \in 1..Len(log) : log[i].path = <<1>> /\ log[i].ev = "fail"
                              /\ log[i].position > entry.position
    /\ ret.out = "ok"
    /\ state.position > entry.position

---------------------------------------------------------------------------
IsPrefix(p, q) == Len(p) <= Len(q) /\ SubSeq(q, 1, Len(p)) = p

\* the entry event that the exit event log[i] answers
EntryOf(i) ==
    CHOOSE j \in 1..(i - 1) :
        /\ log[j].path = log[i].path
        /\ log[j].ev = "call"
        /\ \A n \in (j + 1)..(i - 1) : ~(log[n].path = log[i].path /\ log[n].ev = "call")

\* every options that ended by success or by a parse failure left the commit
\* flag as it found it
C3_Restored ==
    Parsed =>
        \A i \in 1..Len(log) :
            (log[i].k = "options" /\ log[i].ev \in {"ok", "fail"})
            => log[i].cut = log[EntryOf(i)].cut

InsideNestedOptions(path) ==
    \E j \in 1..Len(log) :
        log[j].k = "options" /\ log[j].path # <<>> /\ IsPrefix(log[j].path, path)

\* in options(A, Z) where every cut that ran was inside an options nested in
\* A: if A fails, Z is attempted
C3_NestedCutLocal ==
    (/\ Parsed
     /\ called.arg \in NestGrammars
     /\ Exited(<<1>>, "fail")
     /\ \A i \in 1..Len(log) : log[i].k = "cut" => InsideNestedOptions(log[i].path))
    => Attempted(<<2>>)

(* C3: the commit flag is scoped to the innermost enclosing alternation: an *)
(* options that finishes by success or by a parse failure leaves the flag   *)
(* as it was at its entry, and a cut run inside a nested options does not   *)
(* stop the enclosing options from trying its next alternative.             *)
C3_CommitScoped == C3_Restored /\ C3_NestedCutLocal

\* the second half of C3 on the parses in which no programming error is raised
C3_NestedCutLocalNoError ==
    (\A i \in 1..Len(log) : log[i].ev # "error") => C3_NestedCutLocal

---------------------------------------------------------------------------
\* the events of repeat's inner (path <<1>>) and separator (path <<2>>)
InnerExits == {i \in 1..Len(log) : log[i].path = <<1>> /\ log[i].ev # "call"}
InnerOks == {i \in 1..Len(log) : log[i].path = <<1>> /\ log[i].ev = "ok"}
SeparatorCalls == {i \in 1..Len(log) : log[i].path = <<2>> /\ log[i].ev = "call"}
Last(S) == CHOOSE i \in S : \A j \in S : j <= i
First(S) == CHOOSE i \in S : \A j \in S : i <= j

\* the failures of separator or inner after the first attempt of inner
LaterFailures ==
    {i \in 1..Len(log) : /\ log[i].path \in {<<1>>, <<2>>}
                         /\ log[i].ev = "fail"
                         /\ i # First(InnerExits)}

(* C4: repeat(inner, separator) fails exactly when the first attempt of     *)
(* inner fails.  A later parse failure of separator or inner ends the loop  *)
(* with success, the position back at its value at the start of that        *)
(* iteration; on success the position is the one right after the last       *)
(* successful inner match.                                                  *)
C4_RepeatAbsorbs ==
    (Parsed /\ called.arg \in RepeatGrammars) =>
        /\ ret.out = "fail" <=> log[First(InnerExits)].ev = "fail"
        /\ ret.out = "ok" => state.position = log[Last(InnerOks)].position
        /\ \A i \in LaterFailures :
              /\ ret.out = "ok"
              /\ \A j \in (i + 1)..Len(log) : log[j].path = <<>>
              /\ state.position = log[Last({j \in SeparatorCalls : j < i})].position

\* the case of C4: the separator matched, inner did not follow, and the
\* separator was given back
C4_Case ==
    /\ Parsed
    /\ called.arg \in RepeatGrammars
    /\ ret.out = "ok"
    /\ \E i \in LaterFailures :
          /\ log[i].path = <<1>>
          /\ log[i].position > state.position

---------------------------------------------------------------------------
ZeroWidthAt(g, p) ==
    LET r == Call(g, [text |-> entry.text, position |-> p, cut |-> False, log |-> <<>>],
                  <<>>, MaxFuel)
    IN  r.out = "ok" /\ r.position = p

AlwaysZeroWidth(g) == \A p \in 0..Len(entry.text) : ZeroWidthAt(g, p)

(* C5: repeat(inner, separator) where inner and separator always succeed    *)
(* consuming nothing ends with success after exactly one iteration of its   *)
(* loop.                                                                    *)
C5_ZeroWidthOneIteration ==
    (/\ Parsed
     /\ called.arg \in RepeatGrammars
     /\ AlwaysZeroWidth(called.arg.inner)
     /\ AlwaysZeroWidth(called.arg.separator))
    => (/\ ret.out = "ok"
        /\ Cardinality(SeparatorCalls) = 1
        /\ Cardinality(InnerExits) = 2
        /\ state.position = entry.position)

\* the case of C5: a zero-width inner, no separator, and the parse returned
C5_Case ==
    /\ Parsed
    /\ called.arg \in RepeatGrammars
    /\ called.arg.separator = Absent
    /\ AlwaysZeroWidth(called.arg.inner)
    /\ Len(entry.text) > 0
    /\ ret.out = "ok"

---------------------------------------------------------------------------
(* C6: not(inner) never advances position: if inner fails, not succeeds     *)
(* with no value at the position of its entry; if inner succeeds, not fails *)
(* with a parse failure and position is back at its value at entry.         *)
C6_NotNeverAdvances ==
    (Parsed /\ called.arg \in NotGrammars) =>
        /\ state.position = entry.position
        /\ Exited(<<1>>, "fail") => ret = [out |-> "ok", val |-> Undefined]
        /\ Exited(<<1>>, "ok") => ret.out = "fail"

\* what not does do: it succeeds without a value iff inner fails, and puts
\* the position back only then
C6_NotAsCoded ==
    (Parsed /\ called.arg \in NotGrammars) =>
        /\ Exited(<<1>>, "fail") =>
              (ret = [out |-> "ok", val |-> Undefined] /\ state.position = entry.position)
        /\ Exited(<<1>>, "ok") =>
              (ret.out = "fail" /\ state.position = Alone(called.arg.inner).position)

---------------------------------------------------------------------------
\* the match of the pattern called, tried at the position of entry only
MatchAtEntry == ReEnds(called.arg.pattern.re, entry.text, entry.position)

(* C7: a pattern resolved by parser() matches at the current position only; *)
(* on success it advances by the length of the match and yields the matched *)
(* substring; on failure it signals a parse failure and does not advance.   *)
C7_PatternYieldsMatch ==
    (Parsed /\ called.arg \in PatternGrammars) =>
        IF Len(MatchAtEntry) > 0
        THEN /\ ret = [out |-> "ok",
                       val |-> StrVal(Substring(entry.text, entry.position,
                                                Head(MatchAtEntry)))]
             /\ state.position = Head(MatchAtEntry)
        ELSE /\ ret.out = "fail"
             /\ state.position = entry.position

\* the same without the value: where the pattern matches and how far it moves
C7_PatternAnchored ==
    (Parsed /\ called.arg \in PatternGrammars) =>
        IF Len(MatchAtEntry) > 0
        THEN ret.out = "ok" /\ state.position = Head(MatchAtEntry)
        ELSE ret.out = "fail" /\ state.position = entry.position

---------------------------------------------------------------------------
\* the entries and exits of the elements (fields) of the array (object) called
ElementCalls == {i \in 1..Len(log) : Len(log[i].path) = 1 /\ log[i].ev = "call"}
ElementOks == {i \in 1..Len(log) : Len(log[i].path) = 1 /\ log[i].ev = "ok"}
NonEmptyOks == {i \in ElementOks : log[i].val # Undefined}

\* the elements were entered in the order 1, 2, ..., n
CalledInOrder(n) ==
    /\ Cardinality(ElementCalls) = n
    /\ \A i, j \in ElementCalls : i < j => log[i].path[1] < log[j].path[1]

(* C8: a sequence runs its elements in order and, on success, yields the    *)
(* value of the last element whose value is not undefined (0, false, the    *)
(* empty string and null count as values), and no value (undefined, or the  *)
(* null that stands for it) if there is none.                               *)
C8_SequenceLastNonEmpty ==
    (Parsed /\ called.arg \in SequenceGrammars /\ ret.out = "ok") =>
        /\ CalledInOrder(Len(called.arg.list))
        /\ IF NonEmptyOks = {}
           THEN ret.val \in {Undefined, Null}
           ELSE ret.val = log[Last(NonEmptyOks)].val

\* what sequence does do: the last element whose value is truthy, and null
\* if there is none
C8_SequenceLastTruthy ==
    (Parsed /\ called.arg \in SequenceGrammars /\ ret.out = "ok") =>
        /\ CalledInOrder(Len(called.arg.list))
        /\ LET truthy == {i \in ElementOks : Truthy(log[i].val)}
           IN  ret.val = IF truthy = {} THEN Null ELSE log[Last(truthy)].val

---------------------------------------------------------------------------
KeptFields(obj) == {i \in 1..Len(obj) : obj[i].key \notin Discarded}
ValueOfField(i) == log[CHOOSE j \in ElementOks : log[j].path = <<i>>].val

(* C9: a structure matches every field in declaration order and, on         *)
(* success, yields a record with exactly one entry per field whose name is  *)
(* not one of _, __, ___, ____, _____, holding that field's value.          *)
C9_StructureDropsDiscarded ==
    (Parsed /\ called.arg \in StructureGrammars /\ ret.out = "ok") =>
        /\ CalledInOrder(Len(called.arg.fields))
        /\ ret.val.t = "object"
        /\ Len(ret.val.v) = Cardinality(KeptFields(called.arg.fields))
        /\ \A i \in KeptFields(called.arg.fields) :
              \E n \in 1..Len(ret.val.v) :
                  ret.val.v[n] = [key |-> called.arg.fields[i].key, val |-> ValueOfField(i)]

\* what structure does do: one entry per field, discarded or not
C9_StructureKeepsAll ==
    (Parsed /\ called.arg \in StructureGrammars /\ ret.out = "ok") =>
        /\ Len(ret.val.v) = Len(called.arg.fields)
        /\ \A i \in 1..Len(called.arg.fields) :
              \E n \in 1..Len(ret.val.v) :
                  ret.val.v[n] = [key |-> called.arg.fields[i].key, val |-> ValueOfField(i)]

---------------------------------------------------------------------------
\* the cell after a call with a cursor
C10_Invoked ==
    (Parsed /\ called.arg = Unary) =>
        IF inner = Null
        THEN ret = [out |-> "error", val |-> ErrorVal("Unary not set")] /\ state = entry
        ELSE /\ ret = [out |-> Alone(inner).out, val |-> Alone(inner).val]
             /\ state.position = Alone(inner).position
             /\ state.cut = Alone(inner).cut

\* one call of the cell
C10_Step ==
    /\ inner # Null => inner' = inner
    /\ (inner = Null /\ called'.op = "bind") => (inner' = called'.arg /\ ret'.out = "ok")
    /\ (inner # Null /\ called'.op = "bind") =>
          ret' = [out |-> "error", val |-> ErrorVal("Invalid argument")]
    /\ (inner = Null /\ called'.op # "bind") => inner' = Null

(* C10: the forward reference is a two-phase cell.  Called with a cursor    *)
(* while unbound it raises an Error and stays unbound; the first bind       *)
(* stores the target; a later bind raises an Error and leaves the first     *)
(* binding; once bound, a call with a cursor has the outcome and the cursor *)
(* effect of the bound matcher; the binding never changes once set.         *)
C10_TwoPhaseCell == []C10_Invoked /\ [][C10_Step]_vars

\* the case of C10: a second bind, with another target, was refused, and the
\* cell still holds the first
C10_Case ==
    /\ called.op = "bind"
    /\ ret.out = "error"
    /\ inner # Null
    /\ inner # called.arg

\* a bound cell called with a cursor, where the bound matcher re-entered the
\* cell and matched
C10_CaseInvoked ==
    /\ Parsed
    /\ called.arg = Unary
    /\ inner # Null
    /\ ret.out = "ok"
    /\ Cardinality({i \in 1..Len(log) : log[i].k = "unary" /\ log[i].ev = "ok"}) > 1

---------------------------------------------------------------------------
Backtracking == {"options", "repeat", "not"}

\* the exits by an Error of the matchers that log[i], the exit of a
\* combinator, called itself
ChildErrors(i) ==
    {j \in (EntryOf(i) + 1)..(i - 1) :
        /\ log[j].ev = "error"
        /\ Len(log[j].path) = Len(log[i].path) + 1
        /\ IsPrefix(log[i].path, log[j].path)}

\* the exit log[i] passes on the Error its inner matcher raised at log[j],
\* and nothing ran in between
Propagates(i, j) ==
    /\ log[i].ev = "error"
    /\ log[i].val = log[j].val
    /\ i = j + 1

(* C11: a programming error raised during a parse is never absorbed by      *)
(* backtracking: when a matcher called by options, repeat or not ends with  *)
(* an Error, that combinator ends with the same Error at once; it tries no   *)
(* later alternative, does not end the repetition, and does not succeed.    *)
C11_ErrorsPropagate ==
    (Parsed /\ called.arg \in ErrorGrammars) =>
        \A i \in 1..Len(log) :
            (log[i].k \in Backtracking /\ log[i].ev # "call")
            => \A j \in ChildErrors(i) : Propagates(i, j)

\* the same of options and repeat alone
C11_OptionsRepeatPropagate ==
    (Parsed /\ called.arg \in ErrorGrammars) =>
        \A i \in 1..Len(log) :
            (log[i].k \in {"options", "repeat"} /\ log[i].ev # "call")
            => \A j \in ChildErrors(i) : Propagates(i, j)

\* what not does do with an Error of its inner matcher: it succeeds without
\* a value at the position of its entry
C11_NotAbsorbs ==
    (Parsed /\ called.arg \in ErrorGrammars) =>
        \A i \in 1..Len(log) :
            (log[i].k = "not" /\ log[i].ev # "call" /\ ChildErrors(i) # {})
            => (/\ log[i].ev = "ok"
                /\ log[i].val = Undefined
                /\ log[i].position = log[EntryOf(i)].position)

\* an Error was raised under options or repeat and came out of the parse
C11_Case ==
    /\ Parsed
    /\ called.arg \in ErrorGrammars
    /\ called.arg.k \in {"options", "repeat"}
    /\ ret.out = "error"
    /\ state.position > entry.position

---------------------------------------------------------------------------
\* the string the literal called was built from
LiteralOf(g) == IF g.k = "string" THEN g.s ELSE g.fn.v.v

\* text.substring(p, p + n), which stops at the end of the text
SubstringFrom(txt, p, n) ==
    SubSeq(txt, p + 1, IF p + n <= Len(txt) THEN p + n ELSE Len(txt))

(* C12: for a text literal L run at position p: if text.substring(p, p +    *)
(* len(L)) equals L, the match succeeds and position becomes p + len(L);    *)
(* otherwise it fails with a parse failure and position stays p.  This      *)
(* holds for the characters that are special in regular expressions too.    *)
C12_LiteralMatches ==
    (Parsed /\ called.arg \in LiteralGrammars) =>
        LET L == LiteralOf(called.arg)
            p == entry.position
        IN  IF SubstringFrom(entry.text, p, Len(L)) = L
            THEN ret.out = "ok" /\ state.position = p + Len(L)
            ELSE ret.out = "fail" /\ state.position = p

\* the case of C12: a literal of two special characters matched past the
\* start of the text
C12_Case ==
    /\ Parsed
    /\ called.arg \in LiteralGrammars
    /\ LiteralOf(called.arg) = <<"(", ")">>
    /\ entry.position > 0
    /\ ret.out = "ok"
    /\ state.position = entry.position + 2

---------------------------------------------------------------------------
\* the matcher called takes one character of S at the position of entry, and
\* fails without moving otherwise
TakesOneOf(S) ==
    IF entry.position < Len(entry.text) /\ entry.text[entry.position + 1] \in S
    THEN ret.out = "ok" /\ state.position = entry.position + 1
    ELSE ret.out = "fail" /\ state.position = entry.position

InRange(a, b) == {ch \in Alphabet : CharCode(a) <= CharCode(ch) /\ CharCode(ch) <= CharCode(b)}

\* char(set) takes exactly one character of the set, at any position
C13_CharMatches ==
    Parsed =>
        \A chars \in CharSets :
            called.arg = Char(chars) => TakesOneOf({chars[i] : i \in 1..Len(chars)})

\* range(a, b) takes exactly one character of a..b, at any position
C13_RangeMatches ==
    Parsed =>
        \A ab \in Ranges :
            called.arg = Range(ab[1], ab[2]) => TakesOneOf(InRange(ab[1], ab[2]))

(* C13: char(set) and range(a, b), run at any position p, succeed exactly   *)
(* when the character at p is in the set, respectively in the inclusive     *)
(* range a..b; on success position advances by one, otherwise they fail and *)
(* position stays p.                                                        *)
C13_CharRangeMatch == C13_CharMatches /\ C13_RangeMatches

\* what range does do: it is as claimed at position 0, and fails at every
\* other position
C13_RangeAtStartOnly ==
    Parsed =>
        \A ab \in Ranges :
            called.arg = Range(ab[1], ab[2]) =>
                IF entry.position = 0
                THEN TakesOneOf(InRange(ab[1], ab[2]))
                ELSE ret.out = "fail" /\ state.position = entry.position

---------------------------------------------------------------------------
\* the exits of capture
CaptureExits == {i \in 1..Len(log) : log[i].k = "capture" /\ log[i].ev # "call"}

\* the exit of the inner matcher of the capture that ended at log[i]
InnerExitOf(i) == i - 1

\* the text between two positions
TextBetween(a, b) == SubSeq(entry.text, a + 1, b)

(* C14: capture(inner) yields exactly the text from the position before     *)
(* inner ran to the position after inner succeeded, whatever inner yields;  *)
(* for capture([A, B]) that is the text from before A to after B.  If inner *)
(* fails, capture fails and yields nothing.                                 *)
C14_CaptureSpan ==
    (Parsed /\ called.arg \in CaptureGrammars) =>
        /\ \A i \in CaptureExits :
              LET e == EntryOf(i)
                  n == InnerExitOf(i)
              IN  /\ log[n].path = log[i].path \o <<1>>
                  /\ log[e + 1].path = log[i].path \o <<1>> /\ log[e + 1].ev = "call"
                  /\ log[n].ev = log[i].ev
                  /\ log[n].position = log[i].position
                  /\ log[i].ev = "ok" =>
                        log[i].val = StrVal(TextBetween(log[e + 1].position, log[n].position))
                  /\ log[i].ev = "fail" => log[i].val = Null
        /\ (called.arg.k = "capture" /\ called.arg.inner.k = "array" /\ ret.out = "ok") =>
              \E a, b \in 1..Len(log) :
                  /\ log[a].path = <<1, 1>> /\ log[a].ev = "call"
                  /\ log[b].path = <<1, 2>> /\ log[b].ev = "ok"
                  /\ ret.val = StrVal(TextBetween(log[a].position, log[b].position))

\* the case of C14: capture([A, B]) past the start of the text, where B
\* yields a number and the capture yields the text of A and B
C14_Case ==
    /\ Parsed
    /\ called.arg \in CaptureGrammars
    /\ called.arg.k = "capture"
    /\ called.arg.inner.k = "array"
    /\ entry.position > 0
    /\ ret.out = "ok"
    /\ Len(ret.val.v) = 2
    /\ \E b \in 1..Len(log) : log[b].path = <<1, 2>> /\ log[b].ev = "ok"
                               /\ log[b].val.t = "number"

---------------------------------------------------------------------------
(* C15: round trip.  For every JSON value encoded without redundant         *)
(* whitespace, parsing the text with the JSON grammar from position 0       *)
(* succeeds, and re-encoding the result gives the text back.                *)
C15_RoundTrip ==
    (Parsed /\ called.arg = jsonDocument) =>
        (ret.out = "ok" /\ Stringify(ret.val) = entry.text)

\* the values the grammar does take and give back: at the top no 0; at any
\* depth no false, no empty string, array or object, and no string with more
\* than one character that is written as an escape
RECURSIVE GivenBack(_)
GivenBack(v) ==
    CASE v.t = "boolean" -> v.v
      [] v.t = "string" ->
            /\ Len(v.v) > 0
            /\ Cardinality({i \in 1..Len(v.v) : Len(QuoteChar(v.v[i])) > 1}) <= 1
      [] v.t = "array" -> Len(v.v) > 0 /\ \A i \in 1..Len(v.v) : GivenBack(v.v[i])
      [] v.t = "object" -> Len(v.v) > 0 /\ \A i \in 1..Len(v.v) : GivenBack(v.v[i].val)
      [] OTHER -> TRUE

\* what the JSON grammar does do: the round trip holds for exactly these
C15_RoundTripWhere ==
    (Parsed /\ called.arg = jsonDocument) =>
        \A v \in JsonValues(MaxDepth) :
            entry.text = Stringify(v) =>
                ((ret.out = "ok" /\ Stringify(ret.val) = entry.text)
                 <=> (GivenBack(v) /\ v # Num(0)))

\* a nested document that is given back
C15_CaseNested ==
    /\ Parsed
    /\ called.arg = jsonDocument
    /\ ret.out = "ok"
    /\ Stringify(ret.val) = entry.text
    /\ ret.val.t = "object"
    /\ ret.val.v[1].val.t = "array"

---------------------------------------------------------------------------
\* the entries and the exits of the options tried by the alternation that
\* ended at log[i]
OptionCalls(i) ==
    {j \in (EntryOf(i) + 1)..(i - 1) :
        /\ log[j].ev = "call"
        /\ Len(log[j].path) = Len(log[i].path) + 1
        /\ IsPrefix(log[i].path, log[j].path)}

OptionExits(i) ==
    {j \in (EntryOf(i) + 1)..(i - 1) :
        /\ log[j].ev # "call"
        /\ Len(log[j].path) = Len(log[i].path) + 1
        /\ IsPrefix(log[i].path, log[j].path)}

FailedOptions == {i \in 1..Len(log) : log[i].k = "options" /\ log[i].ev = "fail"}

C16_CaseExhausted ==
    /\ Parsed
    /\ ret.out = "fail"
    /\ Attempted(<<2>>)
    /\ state.position = entry.position
    /\ entry.cut = Undefined
    /\ state.cut = Undefined
    /\ \E j \in 1..Len(log) : log[j].path = <<1>> /\ log[j].ev = "fail"
                               /\ log[j].position > entry.position

---------------------------------------------------------------------------
\* the path of the matcher that called the matcher at path
ParentPath(path) == SubSeq(path, 1, Len(path) - 1)

\* log[i] is an entry of an option of an options
IsOptionCall(i) ==
    /\ log[i].ev = "call"
    /\ Len(log[i].path) > 0
    /\ \E j \in 1..(i - 1) : log[j].path = ParentPath(log[i].path) /\ log[j].k = "options"

\* the places where options, repeat and not put the position back: the entry
\* of the next option and the failure of options, the exits of repeat and not
IsRestorePoint(i) ==
    \/ IsOptionCall(i)
    \/ log[i].k = "options" /\ log[i].ev = "fail"
    \/ log[i].k \in {"repeat", "not"} /\ log[i].ev = "ok"

(* C17: at every point of a parse started with 0 <= position <= length of   *)
(* the text, position is within 0..length; every matcher that succeeds      *)
(* leaves position at or after its position at entry; position moves       *)
(* backwards only where options, repeat or not restore it after a matcher   *)
(* they called did not succeed.                                             *)
C17_PositionBounds ==
    /\ state.position \in 0..Len(state.text)
    /\ \A i \in 1..Len(log) :
          /\ log[i].position \in 0..Len(entry.text)
          /\ log[i].ev = "ok" => log[i].position >= log[EntryOf(i)].position
    /\ \A i \in 1..(Len(log) - 1) :
          log[i + 1].position < log[i].position =>
              (log[i].ev \notin {"call", "ok"} /\ IsRestorePoint(i + 1))

\* the case of C17: a parse past the start of the text that went backwards
\* on the way and succeeded further on
C17_Case ==
    /\ Parsed
    /\ entry.position > 0
    /\ ret.out = "ok"
    /\ state.position > entry.position
    /\ \E i \in 1..(Len(log) - 1) : log[i + 1].position < log[i].position

---------------------------------------------------------------------------
\* the invocations of the forward reference in the last call
UnaryCalls == {i \in 1..Len(log) : log[i].k = "unary" /\ log[i].ev = "call"}

\* the forward reference re-entered itself at the position of entry until the
\* call stack was exhausted, and the parse ended with that RangeError
Overflows ==
    /\ ret = [out |-> "error", val |-> ErrorVal("RangeError")]
    /\ Cardinality(UnaryCalls) > MaxFuel
    /\ \A i \in UnaryCalls : log[i].position = entry.position

(* C18: there is no left-recursion guard: a rule bound through a forward    *)
(* reference whose first step invokes that forward reference before any     *)
(* input is consumed re-enters itself at the same position without bound,   *)
(* and the parse ends neither with a value nor with a parse failure.        *)
C18_LeftRecursionUnbounded ==
    (Parsed /\ called.arg = Unary /\ inner \in LeftRecTargets) => Overflows

\* the same of the rules that do not invoke the forward reference under not
C18_LeftRecursionOverflows ==
    (Parsed /\ called.arg = Unary /\ inner \in LeftRecursive) => Overflows

\* the left-recursive expression grammar of the tests overflowed the stack
C18_Case ==
    /\ Parsed
    /\ called.arg = Unary
    /\ inner.k = "options"
    /\ inner.opts[1] = opMinus
    /\ Len(entry.text) > 0
    /\ Overflows

---------------------------------------------------------------------------
(* C19: repeat terminates: each iteration of its loop either leaves         *)
(* position strictly after the position it began at or is the last one, so  *)
(* the loop body runs at most length(text) - start + 1 times, whatever      *)
(* inner and separator consume, fail on or yield.                           *)
C19_RepeatTerminates ==
    (Parsed /\ called.arg \in RepeatGrammars) =>
        /\ ret.out # "hang"
        /\ Cardinality(SeparatorCalls) <= Len(entry.text) - entry.position + 1
        /\ \A i, j \in SeparatorCalls : i < j => log[i].position < log[j].position

\* the case of C19: the loop body ran length(text) - start + 1 times, three
\* times or more, and repeat returned
C19_Case ==
    /\ Parsed
    /\ called.arg \in RepeatGrammars
    /\ ret.out = "ok"
    /\ Cardinality(SeparatorCalls) = Len(entry.text) - entry.position + 1
    /\ Cardinality(SeparatorCalls) >= 3

---------------------------------------------------------------------------
\* the matcher of the last call run again on the cursor of its entry, with
\* the commit flag b
WithCut(b) == Call(called.arg, [EntryCursor EXCEPT !.cut = b], <<>>, MaxFuel)

(* C20: the outcome of a matcher does not depend on the commit flag it       *)
(* inherits: run on the same text at the same position with the flag        *)
(* unset, false or true, it ends the same way, with the same value and the  *)
(* same final position.                                                     *)
C20_CutIndependent ==
    Parsed =>
        \A b \in Cuts :
            /\ WithCut(b).out = ret.out
            /\ WithCut(b).val = ret.val
            /\ WithCut(b).position = state.position

\* the case of C20: an alternation entered with the flag set, in which a cut
\* ran, and which went on to its second option and matched
C20_Case ==
    /\ Parsed
    /\ called.arg.k = "options"
    /\ entry.cut = True
    /\ \E i \in 1..Len(log) : log[i].k = "cut"
    /\ Attempted(<<2>>)
    /\ ret.out = "ok"

=============================================================================
